---- MODULE Spec2Model ----
(***************************************************************************)
(* Replay buffer and DQN update cadence (dqn.ipynb) and the Generalized    *)
(* Advantage Estimation backward pass (a2c_batch_learning.ipynb).          *)
(*                                                                         *)
(* Python lists and numpy arrays are 0-based; the model keeps the source's *)
(* indices by using functions over 0..n-1.  A numpy array is a record      *)
(* [shape, data]; None is a record of its own.                             *)
(***************************************************************************)
EXTENDS Integers, Sequences, FiniteSets, TLC

----------------------------------------------------------------------------
(* Bounds of the model *)

MaxCapacity == 3
MaxNumEnvs == 2
MaxBatchSize == 2
MaxTrainingFreq == 2
MaxEpoch == 2
MaxAdds == 4
MaxUpdates == 6
MaxNSteps == 3
MaxEpisodes == 3
MaxEnvSteps == 7
MaxEndT == 4
MaxDecayT == 6
MaxEpsValue == 3

(* Program constant: CartPole's observation_space.shape is (4,) *)
NumObsFeatures == 4
NumActions == 2

Flags == {0, 1}

(* Values the arguments of compute_gae are drawn from.  Small integers are  *)
(* exact in floating point, so the model's arithmetic is the code's.       *)
StateValues == {0, 1}
Rewards == {0, 1}
Gammas == {0, 1, 2}
Lams == {0, 1, 2}

VARIABLES
    config,             \* DQNConfig: training_freq, batch_size, capacity, epoch
    num_envs,           \* DQN.num_envs
    replay_buffer,      \* the ReplayBuffer object
    global_time_step,   \* DQN.global_time_step
    training_step,      \* DQN.training_step
    raised,             \* an exception left DQN.update (the training loop has ended)
    n_adds,             \* history: ReplayBuffer.add calls since the last reset
    added,              \* history: the experience rows added since the last reset
    n_train_calls,      \* history: DQN.train calls so far
    updates_since_train,\* history: DQN.update calls after the last train call
    last_gap,           \* history: update calls from the previous train call to the last one
    sample_idx,         \* the indices ReplayBuffer.sample drew for its caller
    exp_batch,          \* the value ReplayBuffer.sample returned to its caller
    state_value,        \* compute_gae arguments and result
    reward,
    terminated,
    gamma,
    lam,
    gae,
    gae_pc,
    n_steps,            \* batch A2C training loop: n_steps
    step_t,             \* its buffer index t
    reward_arr,         \* its reward buffer
    terminated_arr,     \* its terminated buffer
    episode,            \* its episode counter
    ep_terminated,      \* its terminated flag
    loop_pc,            \* where it stands: "idle", "for" or "while"
    env_steps,          \* history: environment steps taken since the start
    a2c_train_calls,    \* history: agent.train calls so far
    trained,            \* history: the last environment step called agent.train
    train_window,       \* history: the buffers the last agent.train call got
    td_batch,           \* compute_td_loss arguments and network outputs
    td_result,          \* what compute_td_loss computed
    td_pc,
    epsilon_linear_decay,   \* config.epsilon_linear_decay, values in hundredths
    epsilon,                \* policy.epsilon, a fraction num/den of a hundredth
    decay_t                 \* history: argument of the last _epsilon_decay, or -1

dqn_vars == <<config, num_envs, replay_buffer, global_time_step, training_step,
              raised, n_adds, added, n_train_calls, updates_since_train,
              last_gap, sample_idx, exp_batch>>
gae_vars == <<state_value, reward, terminated, gamma, lam, gae, gae_pc>>
a2c_vars == <<n_steps, step_t, reward_arr, terminated_arr, episode, ep_terminated,
              loop_pc, env_steps, a2c_train_calls, trained, train_window>>
td_vars == <<td_batch, td_result, td_pc>>
eps_vars == <<epsilon_linear_decay, epsilon, decay_t>>
vars == <<dqn_vars, gae_vars, a2c_vars, td_vars, eps_vars>>

Min(a, b) == IF a < b THEN a ELSE b

----------------------------------------------------------------------------
(* numpy arrays *)

None == [none |-> TRUE]

\* a 1-d array holding v in each of n places
Full(n, v) == [shape |-> <<n>>, data |-> [k \in 1..n |-> v]]

\* np.array(t) of a tuple t of equally shaped arrays: a new leading axis
NpStack(t) ==
    [shape |-> <<Len(t)>> \o t[1].shape, data |-> [k \in 1..Len(t) |-> t[k].data]]

----------------------------------------------------------------------------
(* Experience: the rows the training loop hands to DQN.update.  Row i of   *)
(* the n-th experience carries the sequence number seq in its observation, *)
(* its action alternates, and d is its terminated flag.                    *)

ExperienceRow(seq, d) ==
    [obs        |-> Full(NumObsFeatures, seq),
     action     |-> Full(1, seq % 2),
     next_obs   |-> Full(NumObsFeatures, seq + 1),
     reward     |-> Full(1, 1),
     terminated |-> Full(1, d)]

Experience(n, envs, d) ==
    [i \in 0..(envs - 1) |-> ExperienceRow((n - 1) * envs + i + 1, d)]

----------------------------------------------------------------------------
(* ReplayBuffer *)

reset(rb) ==
    [rb EXCEPT !.n_step = 0,
               !.count = 0,
               !.recent_idx = -1,
               !.obs = [k \in 0..(rb.capacity - 1) |-> None],
               !.action = [k \in 0..(rb.capacity - 1) |-> None],
               !.next_obs = [k \in 0..(rb.capacity - 1) |-> None],
               !.reward = [k \in 0..(rb.capacity - 1) |-> None],
               !.terminated = [k \in 0..(rb.capacity - 1) |-> None]]

ReplayBuffer(training_freq, sampled_batch_size, capacity, envs) ==
    reset([training_freq |-> training_freq,
           sampled_batch_size |-> sampled_batch_size,
           capacity |-> capacity,
           num_envs |-> envs,
           n_step |-> 0, count |-> 0, recent_idx |-> -1,
           obs |-> <<>>, action |-> <<>>, next_obs |-> <<>>,
           reward |-> <<>>, terminated |-> <<>>])

\* can_sample with a strict comparison of n_step
can_sample_strict(rb) ==
    rb.count >= rb.sampled_batch_size /\ rb.n_step > rb.training_freq

can_sample(rb) ==
    rb.count >= rb.sampled_batch_size /\ rb.n_step >= rb.training_freq

\* add_row with the index clamped at the last slot instead of wrapping
add_row_clamp(rb, experience, i) ==
    LET idx == Min(rb.recent_idx + 1, rb.capacity - 1)
    IN [rb EXCEPT !.recent_idx = idx,
                  !.count = Min(rb.count + 1, rb.capacity),
                  !.obs[idx] = experience[i].obs,
                  !.action[idx] = experience[i].action,
                  !.next_obs[idx] = experience[i].next_obs,
                  !.reward[idx] = experience[i].reward,
                  !.terminated[idx] = experience[i].terminated]

\* add_row with count incremented without the cap
add_row_uncapped(rb, experience, i) ==
    LET idx == (rb.recent_idx + 1) % rb.capacity
    IN [rb EXCEPT !.recent_idx = idx,
                  !.count = rb.count + 1,
                  !.obs[idx] = experience[i].obs,
                  !.action[idx] = experience[i].action,
                  !.next_obs[idx] = experience[i].next_obs,
                  !.reward[idx] = experience[i].reward,
                  !.terminated[idx] = experience[i].terminated]

\* one iteration of the loop of add: the row of environment i
add_row(rb, experience, i) ==
    LET idx == (rb.recent_idx + 1) % rb.capacity
    IN [rb EXCEPT !.recent_idx = idx,
                  !.count = Min(rb.count + 1, rb.capacity),
                  !.obs[idx] = experience[i].obs,
                  !.action[idx] = experience[i].action,
                  !.next_obs[idx] = experience[i].next_obs,
                  !.reward[idx] = experience[i].reward,
                  !.terminated[idx] = experience[i].terminated]

RECURSIVE add_rows(_, _, _)
add_rows(rb, experience, i) ==
    IF i >= rb.num_envs THEN rb
    ELSE add_rows(add_row(rb, experience, i), experience, i + 1)

add(rb, experience) ==
    add_rows([rb EXCEPT !.n_step = rb.n_step + 1], experience, 0)

\* _sample_idxs drawing below capacity instead of below count
sample_idxs_capacity(rb) ==
    [1..rb.sampled_batch_size -> 0..(rb.capacity - 1)]

\* np.random.randint(count, size=sampled_batch_size): the vectors it can return
sample_idxs(rb) ==
    [1..rb.sampled_batch_size -> 0..(rb.count - 1)]

\* operator.itemgetter(*batch_idx)(items): the item itself for one index,
\* a tuple of the items for several
itemgetter(batch_idx, items) ==
    IF Len(batch_idx) = 1 THEN items[batch_idx[1]]
    ELSE [k \in 1..Len(batch_idx) |-> items[batch_idx[k]]]

get_batch_tensor(items, batch_idx) ==
    LET got == itemgetter(batch_idx, items)
    IN IF Len(batch_idx) = 1 THEN got
       ELSE IF \E k \in 1..Len(got) : got[k] = None
            THEN [shape |-> <<Len(got)>>, data |-> got]   \* an object array
            ELSE NpStack(got)

\* sample with the indices batch_idx drawn by _sample_idxs
sample(rb, batch_idx) ==
    [rb    |-> [rb EXCEPT !.n_step = 0],
     batch |-> [obs        |-> get_batch_tensor(rb.obs, batch_idx),
                action     |-> get_batch_tensor(rb.action, batch_idx),
                next_obs   |-> get_batch_tensor(rb.next_obs, batch_idx),
                reward     |-> get_batch_tensor(rb.reward, batch_idx),
                terminated |-> get_batch_tensor(rb.terminated, batch_idx)]]

----------------------------------------------------------------------------
(* DQN *)

\* compute_td_loss: q_values.gather(dim=1, ...) and next_q_values.max(dim=1)
\* need a batch axis; the network keeps the number of axes of obs
compute_td_loss_raises(batch) ==
    Len(batch.obs.shape) < 2

\* one iteration of the loop of train, with the indices its sample draws
train_iter(st, batch_idx) ==
    LET s == sample(st.rb, batch_idx)
    IN IF compute_td_loss_raises(s.batch)
       THEN [st EXCEPT !.rb = s.rb, !.raised = TRUE]
       ELSE [st EXCEPT !.rb = s.rb, !.training_step = st.training_step + 1]

\* the states the loop of train can end in, from the states sts it can be in
\* with k iterations left; an exception ends the loop
RECURSIVE train_loop(_, _)
train_loop(sts, k) ==
    IF k = 0 THEN sts
    ELSE train_loop(UNION { IF st.raised THEN {st}
                            ELSE { train_iter(st, batch_idx) :
                                     batch_idx \in sample_idxs(st.rb) } :
                            st \in sts },
                    k - 1)

train(rb, ts, epoch) ==
    train_loop({[rb |-> rb, training_step |-> ts, raised |-> FALSE]}, epoch)

----------------------------------------------------------------------------
(* compute_gae.  state_value is a function over 0..n_step, reward and      *)
(* terminated are functions over 0..n_step-1.                              *)

\* delta without the episode-boundary mask
gae_delta_unmasked(sv, r, term, g) ==
    [t \in DOMAIN r |-> r[t] + g * sv[t + 1] - sv[t]]

\* delta = reward + not_terminated * gamma * state_value[1:] - state_value[:-1]
gae_delta(sv, r, term, g) ==
    [t \in DOMAIN r |-> r[t] + (1 - term[t]) * g * sv[t + 1] - sv[t]]

\* the discount factor without lambda
discount_factor_gamma(g, l) == g

\* the discount factor without gamma
discount_factor_lam(g, l) == l

discount_factor(g, l) == g * l

\* the loop body without the episode-boundary mask
gae_step_unmasked(delta_t, not_terminated_t, df, discounted_gae) ==
    delta_t + df * discounted_gae

\* the loop body: the new discounted_gae
gae_step(delta_t, not_terminated_t, df, discounted_gae) ==
    delta_t + not_terminated_t * df * discounted_gae

\* for t in reversed(range(n_step)), from t downwards
RECURSIVE gae_loop(_, _, _, _, _, _)
gae_loop(out, discounted_gae, t, delta, term, df) ==
    IF t < 0 THEN out
    ELSE LET d == gae_step(delta[t], 1 - term[t], df, discounted_gae)
         IN gae_loop([out EXCEPT ![t] = d], d, t - 1, delta, term, df)

\* torch.empty_like(reward): the loop writes every place before it is read
Uninitialized == "uninitialized"

compute_gae(sv, r, term, g, l) ==
    LET n_step == Cardinality(DOMAIN r)
    IN gae_loop([t \in DOMAIN r |-> Uninitialized], 0, n_step - 1,
                gae_delta(sv, r, term, g), term, discount_factor(g, l))

----------------------------------------------------------------------------
(* Initial states *)

(* The epsilon schedule.  Values are exact fractions: what the floating    *)
(* point operations of the source compute up to rounding.                  *)

Rat(n, d) == [num |-> n, den |-> d]
RatLeq(a, b) == a.num * b.den <= b.num * a.den
RatEq(a, b) == a.num * b.den = b.num * a.den
RatMax(a, b) == IF RatLeq(a, b) THEN b ELSE a
RatMin(a, b) == IF RatLeq(a, b) THEN a ELSE b

\* np.clip(a, a_min, a_max) is minimum(a_max, maximum(a, a_min))
np_clip(a, a_min, a_max) == RatMin(a_max, RatMax(a, a_min))

\* the schedule without np.clip
epsilon_decay_unclipped(eld, t_now) ==
    LET slope == Rat(eld[4] - eld[3], eld[2] - eld[1])
    IN Rat(slope.num * (t_now - eld[1]) + eld[3] * slope.den, slope.den)

\* DQN._epsilon_decay: the value it stores in policy.epsilon
epsilon_decay(eld, t_now) ==
    LET start_t == eld[1]
        end_t == eld[2]
        start_value == eld[3]
        end_value == eld[4]
        slope == Rat(end_value - start_value, end_t - start_t)
    IN np_clip(Rat(slope.num * (t_now - start_t) + start_value * slope.den, slope.den),
               Rat(end_value, 1), Rat(start_value, 1))

\* epsilon_linear_decay of the notebook's DQNConfig: (0, 100000, 0.3, 0.01)
EpsilonLinearDecay == <<0, 100000, 30, 1>>

\* DQN.__init__: policy = EpsilonGreedyPolicy(config.epsilon_linear_decay[2])
PolicyInit ==
    /\ epsilon = Rat(epsilon_linear_decay[3], 1)
    /\ decay_t = -1

EpsIdle ==
    /\ epsilon_linear_decay = EpsilonLinearDecay
    /\ PolicyInit

GaeIdle ==
    /\ state_value = <<>> /\ reward = <<>> /\ terminated = <<>>
    /\ gamma = 0 /\ lam = 0 /\ gae = <<>> /\ gae_pc = "idle"

A2CIdle ==
    /\ n_steps = 1 /\ step_t = 0 /\ reward_arr = <<>> /\ terminated_arr = <<>>
    /\ episode = 0 /\ ep_terminated = FALSE /\ loop_pc = "idle"
    /\ env_steps = 0 /\ a2c_train_calls = 0 /\ trained = FALSE
    /\ train_window = None

TdIdle ==
    /\ td_batch = None /\ td_result = None /\ td_pc = "idle"

DQNInit ==
    /\ config \in [training_freq : 1..MaxTrainingFreq,
                   batch_size : 1..MaxBatchSize,
                   capacity : 1..MaxCapacity,
                   epoch : 1..MaxEpoch]
    /\ num_envs \in 1..MaxNumEnvs
    /\ replay_buffer = ReplayBuffer(config.training_freq, config.batch_size,
                                    config.capacity, num_envs)
    /\ global_time_step = 0
    /\ training_step = 0
    /\ raised = FALSE
    /\ n_adds = 0
    /\ added = <<>>
    /\ n_train_calls = 0
    /\ updates_since_train = 0
    /\ last_gap = 0
    /\ sample_idx = <<>>
    /\ exp_batch = None

Init == DQNInit /\ GaeIdle /\ A2CIdle /\ TdIdle /\ EpsIdle

\* the rows of an experience, in the order add stores them
Rows(experience, envs) == [k \in 1..envs |-> experience[k - 1]]

----------------------------------------------------------------------------
(* DQN.update, called once per environment step by the training loop *)

Update ==
    /\ ~raised
    /\ global_time_step < MaxUpdates
    /\ \E d \in Flags :
         LET experience == Experience(n_adds + 1, num_envs, d)
             rb1 == add(replay_buffer, experience)
         IN /\ global_time_step' = global_time_step + 1
            /\ n_adds' = n_adds + 1
            /\ added' = added \o Rows(experience, num_envs)
            /\ IF can_sample(rb1)
               THEN /\ \E out \in train(rb1, training_step, config.epoch) :
                         /\ replay_buffer' = out.rb
                         /\ training_step' = out.training_step
                         /\ raised' = out.raised
                         /\ IF out.raised
                            THEN UNCHANGED <<epsilon, decay_t>>
                            ELSE /\ epsilon' = epsilon_decay(epsilon_linear_decay,
                                                             global_time_step + 1)
                                 /\ decay_t' = global_time_step + 1
                    /\ n_train_calls' = n_train_calls + 1
                    /\ last_gap' = IF n_train_calls = 0 THEN 0
                                   ELSE updates_since_train + 1
                    /\ updates_since_train' = 0
               ELSE /\ replay_buffer' = rb1
                    /\ updates_since_train' = updates_since_train + 1
                    /\ UNCHANGED <<training_step, raised, n_train_calls, last_gap>>
                    /\ UNCHANGED <<epsilon, decay_t>>
    /\ UNCHANGED <<config, num_envs, sample_idx, exp_batch, epsilon_linear_decay>>
    /\ UNCHANGED <<gae_vars, a2c_vars, td_vars>>

Next == Update

Spec == Init /\ [][Next]_vars

----------------------------------------------------------------------------
(* The ReplayBuffer used on its own: add, sample and reset in any order.   *)
(* sample_idx and exp_batch hold what the last call returned when it was a *)
(* sample.                                                                 *)

BufferInit ==
    /\ DQNInit
    /\ config.training_freq = 1
    /\ config.epoch = 1
    /\ GaeIdle
    /\ A2CIdle
    /\ TdIdle
    /\ EpsIdle

Add ==
    /\ n_adds < MaxAdds
    /\ \E d \in Flags :
         LET experience == Experience(n_adds + 1, num_envs, d)
         IN /\ replay_buffer' = add(replay_buffer, experience)
            /\ added' = added \o Rows(experience, num_envs)
    /\ n_adds' = n_adds + 1
    /\ sample_idx' = <<>>
    /\ exp_batch' = None
    /\ UNCHANGED <<config, num_envs, global_time_step, training_step, raised,
                   n_train_calls, updates_since_train, last_gap>>
    /\ UNCHANGED <<gae_vars, a2c_vars, td_vars, eps_vars>>

\* np.random.randint(0, ...) raises, so sample needs count >= 1
Sample ==
    /\ replay_buffer.count >= 1
    /\ \E batch_idx \in sample_idxs(replay_buffer) :
         LET s == sample(replay_buffer, batch_idx)
         IN /\ replay_buffer' = s.rb
            /\ sample_idx' = batch_idx
            /\ exp_batch' = s.batch
    /\ UNCHANGED <<config, num_envs, global_time_step, training_step, raised,
                   n_adds, added, n_train_calls, updates_since_train, last_gap>>
    /\ UNCHANGED <<gae_vars, a2c_vars, td_vars, eps_vars>>

Reset ==
    /\ replay_buffer' = reset(replay_buffer)
    /\ n_adds' = 0
    /\ added' = <<>>
    /\ sample_idx' = <<>>
    /\ exp_batch' = None
    /\ UNCHANGED <<config, num_envs, global_time_step, training_step, raised,
                   n_train_calls, updates_since_train, last_gap>>
    /\ UNCHANGED <<gae_vars, a2c_vars, td_vars, eps_vars>>

BufferNext == Add \/ Sample \/ Reset

SpecBuffer == BufferInit /\ [][BufferNext]_vars

----------------------------------------------------------------------------
(* compute_gae called on bounded windows: a first call, then calls on      *)
(* windows that differ from the last one in one reward, flag or value.     *)

DQNIdle ==
    /\ DQNInit
    /\ config = [training_freq |-> 1, batch_size |-> 1, capacity |-> 1, epoch |-> 1]
    /\ num_envs = 1

GaeInit ==
    /\ DQNIdle
    /\ A2CIdle
    /\ TdIdle
    /\ EpsIdle
    /\ \E n \in 1..MaxNSteps :
          /\ state_value \in [0..n -> StateValues]
          /\ reward \in [0..(n - 1) -> Rewards]
          /\ terminated \in [0..(n - 1) -> Flags]
    /\ gamma \in Gammas
    /\ lam \in Lams
    /\ gae = <<>>
    /\ gae_pc = "call"

CallComputeGae ==
    /\ gae_pc = "call"
    /\ gae' = compute_gae(state_value, reward, terminated, gamma, lam)
    /\ gae_pc' = "done"
    /\ UNCHANGED <<state_value, reward, terminated, gamma, lam>>
    /\ UNCHANGED <<dqn_vars, a2c_vars, td_vars, eps_vars>>

CallOnChangedReward ==
    /\ gae_pc = "done"
    /\ \E t \in DOMAIN reward : \E v \in Rewards \ {reward[t]} :
          reward' = [reward EXCEPT ![t] = v]
    /\ gae' = compute_gae(state_value, reward', terminated, gamma, lam)
    /\ UNCHANGED <<state_value, terminated, gamma, lam, gae_pc>>
    /\ UNCHANGED <<dqn_vars, a2c_vars, td_vars, eps_vars>>

CallOnChangedFlag ==
    /\ gae_pc = "done"
    /\ \E t \in DOMAIN terminated :
          terminated' = [terminated EXCEPT ![t] = 1 - terminated[t]]
    /\ gae' = compute_gae(state_value, reward, terminated', gamma, lam)
    /\ UNCHANGED <<state_value, reward, gamma, lam, gae_pc>>
    /\ UNCHANGED <<dqn_vars, a2c_vars, td_vars, eps_vars>>

CallOnChangedValue ==
    /\ gae_pc = "done"
    /\ \E t \in DOMAIN state_value : \E v \in StateValues \ {state_value[t]} :
          state_value' = [state_value EXCEPT ![t] = v]
    /\ gae' = compute_gae(state_value', reward, terminated, gamma, lam)
    /\ UNCHANGED <<reward, terminated, gamma, lam, gae_pc>>
    /\ UNCHANGED <<dqn_vars, a2c_vars, td_vars, eps_vars>>

GaeNext ==
    CallComputeGae \/ CallOnChangedReward \/ CallOnChangedFlag \/ CallOnChangedValue

SpecGAE == GaeInit /\ [][GaeNext]_vars

----------------------------------------------------------------------------
(* The training loop of batch A2C.  log_pi_arr and state_value_arr hold    *)
(* network outputs and are filled and reset like the two buffers kept.     *)

reset_buffer(n) == [k \in 0..(n - 1) |-> None]

\* the test made before t is incremented
should_train_early(t_now, n) == t_now + 1 = n

\* if t == n_steps
should_train(t_now, n) == t_now = n

A2CInit ==
    /\ DQNIdle
    /\ GaeIdle
    /\ TdIdle
    /\ EpsIdle
    /\ n_steps \in 1..MaxNSteps
    /\ step_t = 0
    /\ reward_arr = reset_buffer(n_steps)
    /\ terminated_arr = reset_buffer(n_steps)
    /\ episode = 0
    /\ ep_terminated = FALSE
    /\ loop_pc = "for"
    /\ env_steps = 0
    /\ a2c_train_calls = 0
    /\ trained = FALSE
    /\ train_window = None

\* for episode in range(total_episodes): env.reset(), terminated = False
EpisodeStart ==
    /\ loop_pc = "for"
    /\ episode < MaxEpisodes
    /\ ep_terminated' = FALSE
    /\ loop_pc' = "while"
    /\ UNCHANGED <<n_steps, step_t, reward_arr, terminated_arr, episode,
                   env_steps, a2c_train_calls, trained, train_window>>
    /\ UNCHANGED <<dqn_vars, gae_vars, td_vars, eps_vars>>

\* one pass of the body of while not terminated; d is the flag of env.step
EnvStep ==
    /\ loop_pc = "while"
    /\ ~ep_terminated
    /\ env_steps < MaxEnvSteps
    /\ \E d \in Flags :
         LET rewards == [reward_arr EXCEPT ![step_t] = 1]
             flags == [terminated_arr EXCEPT ![step_t] = d]
             t1 == step_t + 1
         IN /\ ep_terminated' = (d = 1)
            /\ IF should_train(t1, n_steps)
               THEN /\ a2c_train_calls' = a2c_train_calls + 1
                    /\ train_window' = [reward |-> rewards, terminated |-> flags]
                    /\ trained' = TRUE
                    /\ step_t' = 0
                    /\ reward_arr' = reset_buffer(n_steps)
                    /\ terminated_arr' = reset_buffer(n_steps)
               ELSE /\ trained' = FALSE
                    /\ step_t' = t1
                    /\ reward_arr' = rewards
                    /\ terminated_arr' = flags
                    /\ UNCHANGED <<a2c_train_calls, train_window>>
    /\ env_steps' = env_steps + 1
    /\ UNCHANGED <<n_steps, episode, loop_pc>>
    /\ UNCHANGED <<dqn_vars, gae_vars, td_vars, eps_vars>>

\* the while loop ends; the episode is logged and the next one begins
EpisodeDone ==
    /\ loop_pc = "while"
    /\ ep_terminated
    /\ episode' = episode + 1
    /\ loop_pc' = "for"
    /\ UNCHANGED <<n_steps, step_t, reward_arr, terminated_arr, ep_terminated,
                   env_steps, a2c_train_calls, trained, train_window>>
    /\ UNCHANGED <<dqn_vars, gae_vars, td_vars, eps_vars>>

A2CNext == EpisodeStart \/ EnvStep \/ EpisodeDone

SpecA2C == A2CInit /\ [][A2CNext]_vars

----------------------------------------------------------------------------
(* DQN._epsilon_decay called with any t on any schedule with               *)
(* start_t < end_t; a schedule with start_t = end_t divides by zero.       *)

EpsInit ==
    /\ DQNIdle
    /\ GaeIdle
    /\ A2CIdle
    /\ TdIdle
    /\ epsilon_linear_decay \in
          {eld \in (0..MaxEndT) \X (0..MaxEndT) \X (0..MaxEpsValue) \X (0..MaxEpsValue) :
              eld[1] < eld[2]}
    /\ PolicyInit

CallEpsilonDecay ==
    /\ \E t_now \in 0..MaxDecayT :
         /\ epsilon' = epsilon_decay(epsilon_linear_decay, t_now)
         /\ decay_t' = t_now
    /\ UNCHANGED epsilon_linear_decay
    /\ UNCHANGED <<dqn_vars, gae_vars, a2c_vars, td_vars>>

EpsNext == CallEpsilonDecay

SpecEps == EpsInit /\ [][EpsNext]_vars

----------------------------------------------------------------------------
(* DQN.compute_td_loss on a batch of two rows.  The network is not         *)
(* modelled: its outputs q_values = network(obs) and next_q_values =       *)
(* network(next_obs) are drawn with the batch.  action, reward and         *)
(* terminated have shape (batch, 1), so every tensor below is one value    *)
(* per row.                                                                *)

Actions == 0..(NumActions - 1)
TdRows == {0, 1}
QValues == {0, 1}

\* q_values.gather(dim=1, index=action)
gather(q, index) == [b \in DOMAIN q |-> q[b][index[b]]]

RECURSIVE max_upto(_, _)
max_upto(row, a) ==
    IF a = 0 THEN row[0]
    ELSE LET m == max_upto(row, a - 1) IN IF row[a] > m THEN row[a] ELSE m

\* next_q_values.max(dim=1, keepdim=True), the values
max_dim1(q) == [b \in DOMAIN q |-> max_upto(q[b], NumActions - 1)]

RECURSIVE sum_squares(_, _, _)
sum_squares(x, y, rows) ==
    IF rows = {} THEN 0
    ELSE LET b == CHOOSE r \in rows : TRUE
         IN (x[b] - y[b]) * (x[b] - y[b]) + sum_squares(x, y, rows \ {b})

\* F.mse_loss(input, target): the mean of the squared differences
mse_loss(x, y) == Rat(sum_squares(x, y, DOMAIN x), Cardinality(DOMAIN x))

\* the target without the terminated mask
compute_td_loss_unmasked(batch) ==
    LET q_value == gather(batch.q_values, batch.action)
        next_max_q_value == max_dim1(batch.next_q_values)
        q_target == [b \in DOMAIN q_value |->
                        batch.reward[b] + batch.gamma * next_max_q_value[b]]
    IN [q_value |-> q_value, q_target |-> q_target,
        td_loss |-> mse_loss(q_target, q_value)]

compute_td_loss(batch) ==
    LET q_value == gather(batch.q_values, batch.action)
        next_max_q_value == max_dim1(batch.next_q_values)
        not_terminated == [b \in DOMAIN q_value |-> 1 - batch.terminated[b]]
        q_target == [b \in DOMAIN q_value |->
                        batch.reward[b]
                        + not_terminated[b] * batch.gamma * next_max_q_value[b]]
    IN [q_value |-> q_value, q_target |-> q_target,
        td_loss |-> mse_loss(q_target, q_value)]

TdInit ==
    /\ DQNIdle
    /\ GaeIdle
    /\ A2CIdle
    /\ EpsIdle
    /\ td_batch \in [q_values : [TdRows -> [Actions -> QValues]],
                      next_q_values : [TdRows -> [Actions -> QValues]],
                      action : [TdRows -> Actions],
                      reward : [TdRows -> Rewards],
                      terminated : [TdRows -> Flags],
                      gamma : Gammas]
    /\ td_result = None
    /\ td_pc = "ready"

CallComputeTdLoss ==
    /\ td_pc = "ready"
    /\ td_result' = compute_td_loss(td_batch)
    /\ td_pc' = "done"
    /\ UNCHANGED td_batch
    /\ UNCHANGED <<dqn_vars, gae_vars, a2c_vars, eps_vars>>

TdNext == CallComputeTdLoss

SpecTD == TdInit /\ [][TdNext]_vars

----------------------------------------------------------------------------
(* Properties of the replay buffer *)

Slots(rb) == 0..(rb.capacity - 1)

\* what slot k holds, as an experience row
SlotRow(rb, k) ==
    [obs        |-> rb.obs[k],
     action     |-> rb.action[k],
     next_obs   |-> rb.next_obs[k],
     reward     |-> rb.reward[k],
     terminated |-> rb.terminated[k]]

Filled(rb, k) == rb.obs[k] # None

Stored(rb) == { SlotRow(rb, k) : k \in { j \in Slots(rb) : Filled(rb, j) } }

\* the n most recently added rows
Recent(n) == { added[j] : j \in (Len(added) - n + 1)..Len(added) }

\* C1 (state part): with num_envs = 1, after N adds since the reset the buffer
\* holds exactly the min(N, capacity) most recently added experiences.
C1_StoresMostRecent ==
    num_envs = 1 =>
        LET c == Min(n_adds, replay_buffer.capacity)
        IN /\ replay_buffer.count = c
           /\ Stored(replay_buffer) = Recent(c)
           /\ Cardinality(Stored(replay_buffer)) = c

\* C1 (step part): with num_envs = 1, an add into a full buffer replaces the
\* oldest stored experience by the new one and leaves every other slot alone.
C1_OverwritesOldest ==
    (/\ num_envs = 1
     /\ n_adds' = n_adds + 1
     /\ replay_buffer.count = replay_buffer.capacity)
    => \E k \in Slots(replay_buffer) :
          /\ SlotRow(replay_buffer, k) = added[Len(added) - replay_buffer.capacity + 1]
          /\ SlotRow(replay_buffer', k) = added'[Len(added')]
          /\ \A j \in Slots(replay_buffer) \ {k} :
                SlotRow(replay_buffer', j) = SlotRow(replay_buffer, j)

\* C1: circular overwrite.  With num_envs = 1 the buffer stores exactly the
\* most recent min(N, capacity) experiences after N adds following a reset,
\* and once it is full each add overwrites the oldest experience and nothing
\* else.
C1_CircularOverwrite ==
    []C1_StoresMostRecent /\ [][C1_OverwritesOldest]_vars

\* C1 witness: a buffer of at least two slots with num_envs = 1 that has
\* wrapped around.
C1_Witness ==
    /\ num_envs = 1
    /\ replay_buffer.capacity >= 2
    /\ n_adds > replay_buffer.capacity
    /\ replay_buffer.recent_idx < replay_buffer.capacity - 1

\* C2: capacity bound.  count never exceeds capacity, equals
\* min(num_envs * adds since the last reset, capacity), and decreases only
\* through reset.
C2_CapacityBound ==
    /\ [](/\ replay_buffer.count <= replay_buffer.capacity
          /\ replay_buffer.count =
                Min(replay_buffer.num_envs * n_adds, replay_buffer.capacity))
    /\ [][replay_buffer'.count < replay_buffer.count
            => replay_buffer' = reset(replay_buffer)]_vars

\* C2 witness: several environments have pushed more rows than the buffer
\* has slots.
C2_Witness ==
    /\ num_envs >= 2
    /\ num_envs * n_adds > replay_buffer.capacity
    /\ replay_buffer.count = replay_buffer.capacity

\* C3: sampling only stored experiences.  With count >= 1 every index sample
\* can draw lies in [0, count) and refers to a slot holding an added
\* experience, every stored experience can be drawn, and the indices the
\* last sample drew are of that kind.
C3_SamplesStored ==
    replay_buffer.count >= 1 =>
        /\ \A batch_idx \in sample_idxs(replay_buffer) :
              \A k \in 1..Len(batch_idx) :
                 /\ batch_idx[k] \in 0..(replay_buffer.count - 1)
                 /\ batch_idx[k] \in Slots(replay_buffer)
                 /\ SlotRow(replay_buffer, batch_idx[k]) \in Recent(Len(added))
        /\ \A j \in Slots(replay_buffer) :
              Filled(replay_buffer, j) =>
                 \E batch_idx \in sample_idxs(replay_buffer) :
                    \E k \in 1..Len(batch_idx) : batch_idx[k] = j
        /\ \A k \in 1..Len(sample_idx) :
              /\ sample_idx[k] \in 0..(replay_buffer.count - 1)
              /\ SlotRow(replay_buffer, sample_idx[k]) \in Recent(Len(added))

\* C3 witness: sample has drawn from a buffer that wrapped around.
C3_Witness ==
    /\ sample_idx # <<>>
    /\ replay_buffer.num_envs * n_adds > replay_buffer.capacity
    /\ \E k \in 1..Len(sample_idx) : sample_idx[k] > replay_buffer.recent_idx

BatchFields == {"obs", "action", "next_obs", "reward", "terminated"}

\* C4: batch size.  Each of the five fields sample returns has
\* sampled_batch_size as its leading dimension.
C4_BatchSize ==
    exp_batch # None =>
        \A f \in BatchFields :
           exp_batch[f].shape[1] = replay_buffer.sampled_batch_size

----------------------------------------------------------------------------
(* Properties of DQN.update *)

\* C5: training frequency.  Once the buffer holds batch_size experiences,
\* update never lets training_freq calls pass without calling train, and two
\* consecutive calls of train are exactly training_freq update calls apart.
C5_TrainingFreq ==
    /\ (replay_buffer.count >= config.batch_size /\ ~raised)
          => updates_since_train < config.training_freq
    /\ n_train_calls >= 2 => last_gap = config.training_freq

\* C5 witness: train was called twice with training_freq >= 2.
C5_Witness ==
    /\ n_train_calls >= 2
    /\ config.training_freq >= 2
    /\ last_gap = config.training_freq

\* C6: epoch.  training_step is config.epoch times the number of train calls.
C6_Epoch ==
    training_step = config.epoch * n_train_calls

----------------------------------------------------------------------------
(* Properties of compute_gae *)

Steps == DOMAIN reward
LastStep == Cardinality(Steps) - 1

\* the TD error as documented: r_t + gamma * V(s_t+1) - V(s_t)
DocumentedDelta(t) ==
    reward[t] + gamma * state_value[t + 1] - state_value[t]

\* the TD error with the bootstrap value dropped at an episode end
MaskedDelta(t) ==
    reward[t] + (1 - terminated[t]) * gamma * state_value[t + 1] - state_value[t]

\* C7 as stated: gae obeys the documented recursion
\* gae[t] = delta[t] + gamma * lam * gae[t+1], gae[n_steps-1] = delta[n_steps-1],
\* with delta[t] = reward[t] + gamma * state_value[t+1] - state_value[t].
C7_DocumentedRecursion ==
    gae_pc = "done" =>
        \A t \in Steps :
           gae[t] = IF t = LastStep THEN DocumentedDelta(t)
                    ELSE DocumentedDelta(t) + gamma * lam * gae[t + 1]

\* C7 amended: gae obeys the recursion with the episode-boundary mask,
\* gae[t] = delta[t] + (1 - terminated[t]) * gamma * lam * gae[t+1] and
\* gae[n_steps-1] = delta[n_steps-1], with
\* delta[t] = reward[t] + (1 - terminated[t]) * gamma * state_value[t+1] - state_value[t].
C7_MaskedRecursion ==
    gae_pc = "done" =>
        \A t \in Steps :
           gae[t] = IF t = LastStep THEN MaskedDelta(t)
                    ELSE MaskedDelta(t)
                           + (1 - terminated[t]) * gamma * lam * gae[t + 1]

\* C7 witness: a window with an episode end before its last step where the
\* mask changes the result.
C7_Witness ==
    /\ gae_pc = "done"
    /\ \E t \in Steps :
          /\ t < LastStep
          /\ terminated[t] = 1
          /\ gae[t] # DocumentedDelta(t) + gamma * lam * gae[t + 1]

\* what of the window lies at or before step t
Prefix(sv, r, term, t) ==
    [state_value |-> [s \in 0..t |-> sv[s]],
     reward      |-> [s \in 0..t |-> r[s]],
     terminated  |-> [s \in 0..t |-> term[s]]]

\* C8 (state part): at a terminated step gae is reward - state_value.
C8_TerminatedStep ==
    gae_pc = "done" =>
        \A t \in Steps : terminated[t] = 1 => gae[t] = reward[t] - state_value[t]

\* C8 (step part): between two calls whose windows agree up to a terminated
\* step t, gae agrees at every step s <= t.
C8_IndependentOfLater ==
    (gae_pc = "done" /\ gae_pc' = "done") =>
        \A t \in Steps :
           (/\ terminated[t] = 1
            /\ Prefix(state_value', reward', terminated', t)
                 = Prefix(state_value, reward, terminated, t))
           => \A s \in 0..t : gae'[s] = gae[s]

\* C8: episode-boundary masking.  At a terminated step t gae[t] is
\* reward[t] - state_value[t], and gae[s] for s <= t does not depend on any
\* reward, value or flag after t (nor on state_value[t+1]).
C8_BoundaryMasking ==
    []C8_TerminatedStep /\ [][C8_IndependentOfLater]_vars

\* C8 witness: a terminated step before the end of the window, with a
\* bootstrap value and a discount that would show through without the mask.
C8_Witness ==
    /\ gae_pc = "done"
    /\ gamma >= 1
    /\ lam >= 1
    /\ \E t \in Steps :
          /\ t < LastStep
          /\ terminated[t] = 1
          /\ state_value[t + 1] # 0
          /\ gae[t + 1] # 0

RECURSIVE Pow(_, _)
Pow(b, e) == IF e = 0 THEN 1 ELSE b * Pow(b, e - 1)

RECURSIVE SumDeltas(_, _, _)
\* sum over l = from..upto of (gamma*lam)^l * delta[t+l]
SumDeltas(t, l, upto) ==
    IF l > upto THEN 0
    ELSE Pow(gamma * lam, l) * MaskedDelta(t + l) + SumDeltas(t, l + 1, upto)

\* the first terminated step at or after t, or the last step of the window
EpisodeEnd(t) ==
    IF \E k \in t..LastStep : terminated[k] = 1
    THEN CHOOSE k \in t..LastStep :
            /\ terminated[k] = 1
            /\ \A j \in t..(k - 1) : terminated[j] = 0
    ELSE LastStep

\* C9: closed form.  gae[t] is the sum over l = 0..(k - t) of
\* (gamma*lam)^l * delta[t+l], k the first terminated step at or after t (or
\* the last step), delta with the episode-boundary mask.
C9_ClosedForm ==
    gae_pc = "done" =>
        \A t \in Steps : gae[t] = SumDeltas(t, 0, EpisodeEnd(t) - t)

\* C9 witness: a sum of at least two terms, with a discount above 1, that
\* stops at an episode end before the end of the window.
C9_Witness ==
    /\ gae_pc = "done"
    /\ gamma * lam >= 2
    /\ \E t \in Steps :
          /\ EpisodeEnd(t) > t
          /\ EpisodeEnd(t) < LastStep
          /\ MaskedDelta(EpisodeEnd(t)) # 0

\* C10: with lam = 0, gae[t] is the one-step TD error of step t (as
\* compute_gae computes it) whatever the terminated flags are.
C10_LambdaZero ==
    (gae_pc = "done" /\ lam = 0) =>
        \A t \in Steps : gae[t] = MaskedDelta(t)

\* C10 witness: lam = 0 with gamma > 0 and a later advantage that a nonzero
\* discount would add.
C10_Witness ==
    /\ gae_pc = "done"
    /\ lam = 0
    /\ gamma >= 1
    /\ \E t \in Steps :
          /\ t < LastStep
          /\ terminated[t] = 0
          /\ gae[t + 1] # 0

RECURSIVE SumRewards(_, _, _)
\* sum over l = from..upto of gamma^l * reward[t+l]
SumRewards(t, l, upto) ==
    IF l > upto THEN 0
    ELSE Pow(gamma, l) * reward[t + l] + SumRewards(t, l + 1, upto)

\* the n-step advantage of step t over the rest of the window
NStepAdvantage(t) ==
    SumRewards(t, 0, LastStep - t)
      + Pow(gamma, LastStep + 1 - t) * state_value[LastStep + 1]
      - state_value[t]

\* C11: with lam = 1 and no terminated step in the window, gae[t] is the
\* n-step advantage: the discounted rewards from t to the end of the window
\* plus gamma^(n_steps - t) * state_value[n_steps] minus state_value[t].
C11_LambdaOne ==
    (/\ gae_pc = "done"
     /\ lam = 1
     /\ \A t \in Steps : terminated[t] = 0)
    => \A t \in Steps : gae[t] = NStepAdvantage(t)

\* C11 witness: lam = 1, no terminated step, at least two steps, a discount
\* other than 1 and a bootstrap value at the end of the window.
C11_Witness ==
    /\ gae_pc = "done"
    /\ lam = 1
    /\ gamma >= 2
    /\ LastStep >= 1
    /\ \A t \in Steps : terminated[t] = 0
    /\ state_value[LastStep + 1] # 0
    /\ reward[LastStep] # 0

----------------------------------------------------------------------------
(* Properties of the batch A2C training loop *)

\* C12: batch A2C cadence.  An environment step calls agent.train exactly
\* when the number of steps taken since the start of training is a positive
\* multiple of n_steps, counted across episode boundaries: t is the step
\* count modulo n_steps whatever episodes have ended.
C12_TrainCadence ==
    /\ step_t = env_steps % n_steps
    /\ a2c_train_calls = env_steps \div n_steps
    /\ env_steps > 0 => (trained <=> env_steps % n_steps = 0)

\* C12 witness: agent.train is called on a window that holds the end of an
\* episode before its last step, after an earlier call.
C12_Witness ==
    /\ trained
    /\ a2c_train_calls >= 2
    /\ n_steps >= 2
    /\ episode >= 1
    /\ \E k \in 0..(n_steps - 2) : train_window.terminated[k] = 1

----------------------------------------------------------------------------
(* Properties of the epsilon schedule *)

start_t == epsilon_linear_decay[1]
end_t == epsilon_linear_decay[2]
start_value == epsilon_linear_decay[3]
end_value == epsilon_linear_decay[4]

----------------------------------------------------------------------------
(* Properties of the TD loss *)

\* the largest next-state Q value of row b
MaxNextQ(b) ==
    CHOOSE m \in {td_batch.next_q_values[b][a] : a \in Actions} :
        \A a \in Actions : m >= td_batch.next_q_values[b][a]

\* the Q value of the action stored in row b
StoredQ(b) == td_batch.q_values[b][td_batch.action[b]]

RECURSIVE SumSquaredErrors(_)
SumSquaredErrors(rows) ==
    IF rows = {} THEN 0
    ELSE LET b == CHOOSE r \in rows : TRUE
             err == td_result.q_target[b] - StoredQ(b)
         IN err * err + SumSquaredErrors(rows \ {b})

\* C14: the target of a row is its reward when terminated = 1 and
\* reward + gamma * max_a Q(next_obs, a) otherwise, and the loss is the mean
\* squared difference between the target and the Q value of the stored action.
C14_TdTarget ==
    td_pc = "done" =>
        /\ \A b \in TdRows :
              td_result.q_target[b] =
                 IF td_batch.terminated[b] = 1 THEN td_batch.reward[b]
                 ELSE td_batch.reward[b] + td_batch.gamma * MaxNextQ(b)
        /\ RatEq(td_result.td_loss,
                 Rat(SumSquaredErrors(TdRows), Cardinality(TdRows)))

\* C14 witness: a batch with a terminated row and a row that is not, both
\* with a discounted next value that is not 0, a largest next Q value that
\* is not the one of the stored action, and a loss that is not 0.
C14_Witness ==
    /\ td_pc = "done"
    /\ td_batch.gamma >= 2
    /\ \E b \in TdRows :
          /\ td_batch.terminated[b] = 1
          /\ MaxNextQ(b) # 0
          /\ td_batch.reward[b] # 0
    /\ \E b \in TdRows :
          /\ td_batch.terminated[b] = 0
          /\ MaxNextQ(b) # td_batch.next_q_values[b][td_batch.action[b]]
          /\ td_batch.q_values[b][0] # td_batch.q_values[b][1]
    /\ td_result.td_loss.num # 0

====
